---- MODULE Spec2Model ----
(***************************************************************************)
(* ChaCha20 (RFC 8439) engines of PogSmok/chacha20: the scalar engine of   *)
(* chacha20.hpp, the AVX2 dual-block engine of chacha20_AVX.hpp and the    *)
(* test driver of test.cpp.                                                *)
(*                                                                         *)
(* A std::uint32_t is modelled as a pair <<hi, lo>> of 16-bit halves (its  *)
(* value is hi * 2^16 + lo), because the model checker's integers are      *)
(* narrower than 2^32; every operation below is the 32-bit operation of    *)
(* the source carried out on the halves, wrapping modulo 2^32.             *)
(*                                                                         *)
(* A C++ array (std::array, std::vector, the lanes of a __m256i) is a      *)
(* sequence; C++ index i is sequence index i + 1, written at(arr, i).      *)
(***************************************************************************)
EXTENDS Integers, Sequences, FiniteSets, TLC

\* ------------------------------------------------------------------------
\* 32-bit unsigned arithmetic
\* ------------------------------------------------------------------------

H == 2 ^ 16

\* bitwise operations on n-bit naturals, one bit per step
RECURSIVE XorBits(_, _, _)
XorBits(a, b, n) ==
    IF n = 0 THEN 0
    ELSE (((a % 2) + (b % 2)) % 2) + (2 * XorBits(a \div 2, b \div 2, n - 1))

RECURSIVE OrBits(_, _, _)
OrBits(a, b, n) ==
    IF n = 0 THEN 0
    ELSE (IF (a % 2) + (b % 2) > 0 THEN 1 ELSE 0) + (2 * OrBits(a \div 2, b \div 2, n - 1))

\* the same operations tabulated per 4-bit digit
XorNib == [a \in 0..15 |-> [b \in 0..15 |-> XorBits(a, b, 4)]]
OrNib  == [a \in 0..15 |-> [b \in 0..15 |-> OrBits(a, b, 4)]]

Xor8(a, b) == XorNib[a % 16][b % 16] + (16 * XorNib[a \div 16][b \div 16])

Xor16(a, b) ==
    XorNib[a % 16][b % 16]
    + (16 * XorNib[(a \div 16) % 16][(b \div 16) % 16])
    + (256 * XorNib[(a \div 256) % 16][(b \div 256) % 16])
    + (4096 * XorNib[a \div 4096][b \div 4096])

Or16(a, b) ==
    OrNib[a % 16][b % 16]
    + (16 * OrNib[(a \div 16) % 16][(b \div 16) % 16])
    + (256 * OrNib[(a \div 256) % 16][(b \div 256) % 16])
    + (4096 * OrNib[a \div 4096][b \div 4096])

\* a 32-bit word from its two halves, and small naturals as words
W(hi, lo) == <<hi, lo>>
U32(n) == <<n \div H, n % H>>

\* x + y on std::uint32_t (wraps modulo 2^32)
Add32(x, y) ==
    LET lo == x[2] + y[2]
    IN  <<(x[1] + y[1] + (lo \div H)) % H, lo % H>>

\* x - y on std::uint32_t (wraps modulo 2^32)
Sub32(x, y) ==
    LET lo == (x[2] - y[2]) + H
    IN  <<((x[1] - y[1]) + H - (IF lo < H THEN 1 ELSE 0)) % H, lo % H>>

\* x ^ y and x | y
Xor32(x, y) == <<Xor16(x[1], y[1]), Xor16(x[2], y[2])>>
Or32(x, y) == <<Or16(x[1], y[1]), Or16(x[2], y[2])>>

\* x << s and x >> s on std::uint32_t, 0 <= s <= 32 (s = 32 is never asked
\* of the source's shifts; it is what a 16-bit step twice gives)
Shl32(x, s) ==
    IF s >= 16
    THEN <<(x[2] * (2 ^ (s - 16))) % H, 0>>
    ELSE <<((x[1] * (2 ^ s)) % H) + (x[2] \div (2 ^ (16 - s))), (x[2] * (2 ^ s)) % H>>

Shr32(x, s) ==
    IF s >= 16
    THEN <<0, x[1] \div (2 ^ (s - 16))>>
    ELSE <<x[1] \div (2 ^ s), ((x[1] % (2 ^ s)) * (2 ^ (16 - s))) + (x[2] \div (2 ^ s))>>

\* x & 0xFF000000, x & 0x00FF0000, x & 0x0000FF00, x & 0x000000FF
MaskB3(x) == <<(x[1] \div 256) * 256, 0>>
MaskB2(x) == <<x[1] % 256, 0>>
MaskB1(x) == <<0, (x[2] \div 256) * 256>>
MaskB0(x) == <<0, x[2] % 256>>

\* (std::uint8_t) x
Low8(x) == x[2] % 256

\* ------------------------------------------------------------------------
\* chacha20.hpp: the scalar engine
\* ------------------------------------------------------------------------

ROUNDS == 10
KEY_WORDS == 8
NONCE_WORDS == 3
STATE_SIZE == 16

\* arr[i] of the source
at(arr, i) == arr[i + 1]

\* Always TRUE.  Evaluating it evaluates v, which fixes the order in which
\* the steps of a loop are computed.
Strict(v) == Len(<<v>>) = 1

\* for(i = lo; i < hi; i++) Body: the value of the loop's variables after
\* the iterations lo, ..., hi-1 in this order, s being their value before.
\* The range is split in two so that the evaluation nests only
\* logarithmically deep.
RECURSIVE ForLoop(_, _, _, _)
ForLoop(Body(_, _), lo, hi, s) ==
    IF hi <= lo THEN s
    ELSE IF hi = lo + 1 THEN Body(lo, s)
    ELSE LET mid == (lo + hi) \div 2
             m == ForLoop(Body, lo, mid, s)
         IN  IF Strict(m) THEN ForLoop(Body, mid, hi, m) ELSE m

CONSTANT_WORDS ==
    << W(\H6170, \H7865),   \* "expa"
       W(\H3320, \H646e),   \* "nd 3"
       W(\H7962, \H2d32),   \* "2-by"
       W(\H6b20, \H6574) >> \* "te k"

\* the values of std::uint32_t and of std::array<std::uint32_t, N>
IsWord(x) == x[1] \in 0..(H - 1) /\ x[2] \in 0..(H - 1)
IsWords(arr, N) == Len(arr) = N /\ \A i \in 0..(N - 1) : IsWord(at(arr, i))

\* (x << s) | (x >> (32-s))
rotl(x, s) == Or32(Shl32(x, s), Shr32(x, 32 - s))

\* a little_endian that would leave the bytes of the word in place
little_endian_Identity(x) == x

\* the four masked bytes of x moved to the mirrored positions
little_endian(x) ==
    Or32(Or32(Or32(Shr32(MaskB3(x), 24),
                   Shr32(MaskB2(x), 8)),
              Shl32(MaskB1(x), 8)),
         Shl32(MaskB0(x), 24))

\* the quarter round on the four referenced words; the result is the
\* tuple <<a, b, c, d>> of their final values
quarter_round(a, b, c, d) ==
    LET a1 == Add32(a, b)    d1 == Xor32(d, a1)    d2 == rotl(d1, 16)
        c1 == Add32(c, d2)   b1 == Xor32(b, c1)    b2 == rotl(b1, 12)
        a2 == Add32(a1, b2)  d3 == Xor32(d2, a2)   d4 == rotl(d3, 8)
        c2 == Add32(c1, d4)  b3 == Xor32(b2, c2)   b4 == rotl(b3, 7)
    IN  <<a2, b4, c2, d4>>

\* the four referenced words of state_cpy take the values r = <<a, b, c, d>>
Assign4(state_cpy, i, j, k, l, r) ==
    [state_cpy EXCEPT ![i + 1] = r[1], ![j + 1] = r[2], ![k + 1] = r[3], ![l + 1] = r[4]]

\* quarter_round(state_cpy[i], state_cpy[j], state_cpy[k], state_cpy[l]):
\* the four words are updated in place
QuarterRoundAt(state_cpy, i, j, k, l) ==
    Assign4(state_cpy, i, j, k, l,
            quarter_round(at(state_cpy, i), at(state_cpy, j),
                          at(state_cpy, k), at(state_cpy, l)))

\* a double round that would take the diagonals before the columns
QuarterRounds_DiagonalsFirst ==
    << <<0, 5, 10, 15>>, <<1, 6, 11, 12>>, <<2, 7, 8, 13>>, <<3, 4, 9, 14>>,
       <<0, 4, 8, 12>>, <<1, 5, 9, 13>>, <<2, 6, 10, 14>>, <<3, 7, 11, 15>> >>

\* the words the eight quarter rounds of double_round take, in the order of
\* its statements: the four columns, then the four diagonals
QuarterRounds ==
    << <<0, 4, 8, 12>>, <<1, 5, 9, 13>>, <<2, 6, 10, 14>>, <<3, 7, 11, 15>>,
       <<0, 5, 10, 15>>, <<1, 6, 11, 12>>, <<2, 7, 8, 13>>, <<3, 4, 9, 14>> >>

\* the eight quarter_round statements, one after the other
double_round(state_cpy) ==
    ForLoop(LAMBDA q, sc : QuarterRoundAt(sc, at(QuarterRounds, q)[1], at(QuarterRounds, q)[2],
                                          at(QuarterRounds, q)[3], at(QuarterRounds, q)[4]),
            0, Len(QuarterRounds), state_cpy)

\* for(unsigned i = 0; i < ROUNDS; i++) double_round(state_cpy);
RoundsLoop(state_cpy) ==
    ForLoop(LAMBDA i, sc : double_round(sc), 0, ROUNDS, state_cpy)

\* for(size_t i = 0; i < STATE_SIZE; i++) state_cpy[i] += internal_state[i];
AddLoop(state_cpy, internal_state) ==
    ForLoop(LAMBDA i, sc : [sc EXCEPT ![i + 1] = Add32(@, at(internal_state, i))],
            0, STATE_SIZE, state_cpy)

\* a block function whose rounds and addition would run on internal_state
\* itself instead of on a copy
chacha20_block_InPlace(internal_state) ==
    [internal_state |->
         AddLoop(RoundsLoop([internal_state EXCEPT ![12 + 1] = Add32(@, U32(1))]),
                 [internal_state EXCEPT ![12 + 1] = Add32(@, U32(1))]),
     stream |->
         AddLoop(RoundsLoop([internal_state EXCEPT ![12 + 1] = Add32(@, U32(1))]),
                 [internal_state EXCEPT ![12 + 1] = Add32(@, U32(1))])]

\* a block function that would leave word 12 as it is
chacha20_block_NoIncrement(internal_state) ==
    [internal_state |-> internal_state,
     stream |-> AddLoop(RoundsLoop(internal_state), internal_state)]

\* chacha20_block() on an engine whose matrix is internal_state: the matrix
\* it leaves behind (word 12 incremented) and the block it returns
chacha20_block(internal_state) ==
    LET st == [internal_state EXCEPT ![12 + 1] = Add32(@, U32(1))]
        state_cpy == RoundsLoop(st)
    IN  [internal_state |-> st, stream |-> AddLoop(state_cpy, st)]

\* init(): the matrix from the key, block_count and nonce fields
init(key, block_count, nonce) ==
    << \* Assign constant words
       at(CONSTANT_WORDS, 0), at(CONSTANT_WORDS, 1),
       at(CONSTANT_WORDS, 2), at(CONSTANT_WORDS, 3),
       \* Assign key and translate them into little-endian
       little_endian(at(key, 0)), little_endian(at(key, 1)),
       little_endian(at(key, 2)), little_endian(at(key, 3)),
       little_endian(at(key, 4)), little_endian(at(key, 5)),
       little_endian(at(key, 6)), little_endian(at(key, 7)),
       \* Assign block_count
       block_count,
       \* Assign nonce and translate them into little-endian
       little_endian(at(nonce, 0)), little_endian(at(nonce, 1)),
       little_endian(at(nonce, 2)) >>

\* a zeroing loop that would stop one element short
secure_zero_StopsShort(arr) ==
    ForLoop(LAMBDA i, p : [p EXCEPT ![i + 1] = U32(0)], 0, Len(arr) - 1, arr)

\* secure_zero(arr): for (size_t i = 0; i < N; ++i) p[i] = 0;
secure_zero(arr) ==
    ForLoop(LAMBDA i, p : [p EXCEPT ![i + 1] = U32(0)], 0, Len(arr), arr)

\* a constructor that would store block_count as given
Chacha20_KeepsCounter(key, block_count, nonce) ==
    [key |-> key, block_count |-> block_count, nonce |-> nonce,
     internal_state |-> init(key, block_count, nonce)]

\* Chacha20(key, block_count, nonce): the fields of the constructed engine
Chacha20(key, block_count, nonce) ==
    LET bc == Sub32(block_count, U32(1))
    IN  [key |-> key, block_count |-> bc, nonce |-> nonce,
         internal_state |-> init(key, bc, nonce)]

\* a destructor that would zero internal_state as well
Destroy_WipesState(e) ==
    [e EXCEPT !.key = secure_zero(@), !.block_count = U32(0),
              !.nonce = secure_zero(@), !.internal_state = secure_zero(@)]

\* ~Chacha20(): the fields after the destructor's three statements
Destroy(e) ==
    [e EXCEPT !.key = secure_zero(@), !.block_count = U32(0),
              !.nonce = secure_zero(@)]

\* an inner loop body that would add the keystream byte instead of XORing
XorStep_Adds(stream, message, stream_idx, v) ==
    IF v.message_idx < Len(message)
    THEN [output |->
             [v.output EXCEPT ![v.message_idx + 1] =
                 Low8(Add32(U32(at(message, v.message_idx)),
                            Shr32(at(stream, stream_idx \div 4),
                                  8 * (stream_idx % 4))))],
          message_idx |-> v.message_idx + 1]
    ELSE v

\* the body of the inner for loop of encrypt on its variables
\* v = [output, message_idx]; stream_idx is the loop's counter.  An
\* iteration whose condition message_idx < message.size() fails leaves the
\* variables as they are: the loop has ended.
XorStep(stream, message, stream_idx, v) ==
    IF v.message_idx < Len(message)
    THEN [output |->
             [v.output EXCEPT ![v.message_idx + 1] =
                 Low8(Xor32(U32(at(message, v.message_idx)),
                            Shr32(at(stream, stream_idx \div 4),
                                  8 * (stream_idx % 4))))],
          message_idx |-> v.message_idx + 1]
    ELSE v

\* for(stream_idx = 0; stream_idx < STATE_SIZE*4 && message_idx < message.size();
\*     stream_idx++, message_idx++)
XorLoop(stream, message, output, message_idx) ==
    ForLoop(LAMBDA stream_idx, v : XorStep(stream, message, stream_idx, v),
            0, STATE_SIZE * 4, [output |-> output, message_idx |-> message_idx])

\* a while body that would keep the counter of a block it used only in part
EncryptIteration_KeepsPartial(b, message, v) ==
    [internal_state |->
         IF XorLoop(b.stream, message, v.output, v.message_idx).message_idx % 64 = 0
         THEN b.internal_state ELSE v.internal_state,
     output |-> XorLoop(b.stream, message, v.output, v.message_idx).output,
     message_idx |-> XorLoop(b.stream, message, v.output, v.message_idx).message_idx,
     seen |-> Append(v.seen, at(b.internal_state, 12))]

\* one iteration of the while loop of encrypt on its variables
\* v = [internal_state, output, message_idx, seen], b being what this
\* iteration's chacha20_block() gave.  seen collects, for the record, word 12
\* of the matrix each call of chacha20_block permuted.
EncryptIteration(b, message, v) ==
    LET x == XorLoop(b.stream, message, v.output, v.message_idx)
    IN  [internal_state |-> b.internal_state,
         output |-> x.output,
         message_idx |-> x.message_idx,
         seen |-> Append(v.seen, at(b.internal_state, 12))]

\* while(message_idx < message.size())
RECURSIVE EncryptLoop(_, _)
EncryptLoop(message, v) ==
    IF v.message_idx < Len(message)
    THEN EncryptLoop(message,
                     EncryptIteration(chacha20_block(v.internal_state), message, v))
    ELSE v

\* an output buffer that would be sized in whole blocks
ZeroBytes_WholeBlocks(n) == [i \in 1..(((n + 63) \div 64) * 64) |-> 0]

\* std::vector<std::uint8_t> output(message.size())
ZeroBytes(n) == [i \in 1..n |-> 0]

\* encrypt(message) on an engine whose matrix is internal_state: the matrix
\* it leaves behind, the vector it returns and the counters it used
encrypt(internal_state, message) ==
    EncryptLoop(message,
                [internal_state |-> internal_state,
                 output |-> ZeroBytes(Len(message)),
                 message_idx |-> 0,
                 seen |-> <<>>])

\* ------------------------------------------------------------------------
\* chacha20_AVX.hpp: the AVX2 engine, two blocks per pass
\* ------------------------------------------------------------------------

ROW_SIZE == 4

\* A __m256i is the sequence of its eight 32-bit lanes, lane 0 (the lowest
\* 32 bits) first.  _mm256_set_epi32 takes the highest lane first.
_mm256_set_epi32(e7, e6, e5, e4, e3, e2, e1, e0) ==
    <<e0, e1, e2, e3, e4, e5, e6, e7>>

IsRows(rows) == Len(rows) = ROW_SIZE /\ \A r \in 0..(ROW_SIZE - 1) : IsWords(at(rows, r), 8)

\* lane-wise intrinsics
_mm256_add_epi32(a, b) ==
    << Add32(a[1], b[1]), Add32(a[2], b[2]), Add32(a[3], b[3]), Add32(a[4], b[4]),
       Add32(a[5], b[5]), Add32(a[6], b[6]), Add32(a[7], b[7]), Add32(a[8], b[8]) >>

_mm256_xor_si256(a, b) ==
    << Xor32(a[1], b[1]), Xor32(a[2], b[2]), Xor32(a[3], b[3]), Xor32(a[4], b[4]),
       Xor32(a[5], b[5]), Xor32(a[6], b[6]), Xor32(a[7], b[7]), Xor32(a[8], b[8]) >>

_mm256_or_si256(a, b) ==
    << Or32(a[1], b[1]), Or32(a[2], b[2]), Or32(a[3], b[3]), Or32(a[4], b[4]),
       Or32(a[5], b[5]), Or32(a[6], b[6]), Or32(a[7], b[7]), Or32(a[8], b[8]) >>

_mm256_slli_epi32(a, s) ==
    << Shl32(a[1], s), Shl32(a[2], s), Shl32(a[3], s), Shl32(a[4], s),
       Shl32(a[5], s), Shl32(a[6], s), Shl32(a[7], s), Shl32(a[8], s) >>

_mm256_srli_epi32(a, s) ==
    << Shr32(a[1], s), Shr32(a[2], s), Shr32(a[3], s), Shr32(a[4], s),
       Shr32(a[5], s), Shr32(a[6], s), Shr32(a[7], s), Shr32(a[8], s) >>

\* dst lane i is lane (idx lane i, low three bits) of a
_mm256_permutevar8x32_epi32(a, idx) ==
    << at(a, idx[1][2] % 8), at(a, idx[2][2] % 8), at(a, idx[3][2] % 8),
       at(a, idx[4][2] % 8), at(a, idx[5][2] % 8), at(a, idx[6][2] % 8),
       at(a, idx[7][2] % 8), at(a, idx[8][2] % 8) >>

\* a lane-wise rotation that would turn right instead of left
rotl_avx2_Right(x, s) == _mm256_or_si256(_mm256_srli_epi32(x, s), _mm256_slli_epi32(x, 32 - s))

rotl_avx2(x, s) == _mm256_or_si256(_mm256_slli_epi32(x, s), _mm256_srli_epi32(x, 32 - s))

\* the twelve statements of one lane-wise quarter round over the four rows
AvxQuarter(sc) ==
    LET r0a == _mm256_add_epi32(at(sc, 0), at(sc, 1))
        r3a == rotl_avx2(_mm256_xor_si256(at(sc, 3), r0a), 16)
        r2a == _mm256_add_epi32(at(sc, 2), r3a)
        r1a == rotl_avx2(_mm256_xor_si256(at(sc, 1), r2a), 12)
        r0b == _mm256_add_epi32(r0a, r1a)
        r3b == rotl_avx2(_mm256_xor_si256(r3a, r0b), 8)
        r2b == _mm256_add_epi32(r2a, r3b)
        r1b == rotl_avx2(_mm256_xor_si256(r1a, r2b), 7)
    IN  <<r0b, r1b, r2b, r3b>>

\* a shuffle that would rotate all eight lanes instead of each half of four
PermLeft_AcrossHalves ==
    _mm256_set_epi32(U32(6), U32(5), U32(4), U32(3), U32(2), U32(1), U32(0), U32(7))

\* the lane indices of the two shuffles
PermLeft  == _mm256_set_epi32(U32(6), U32(5), U32(4), U32(7), U32(2), U32(1), U32(0), U32(3))
PermHalf  == _mm256_set_epi32(U32(5), U32(4), U32(7), U32(6), U32(1), U32(0), U32(3), U32(2))
PermRight == _mm256_set_epi32(U32(4), U32(7), U32(6), U32(5), U32(0), U32(3), U32(2), U32(1))

\* "Shift so columns will now represent diagonals"
AvxToDiagonals(sc) ==
    << at(sc, 0),
       _mm256_permutevar8x32_epi32(at(sc, 1), PermLeft),
       _mm256_permutevar8x32_epi32(at(sc, 2), PermHalf),
       _mm256_permutevar8x32_epi32(at(sc, 3), PermRight) >>

\* "Shift back so state is in it's original order"
AvxToColumns(sc) ==
    << at(sc, 0),
       _mm256_permutevar8x32_epi32(at(sc, 1), PermRight),
       _mm256_permutevar8x32_epi32(at(sc, 2), PermHalf),
       _mm256_permutevar8x32_epi32(at(sc, 3), PermLeft) >>

avx_double_round(state_cpy) ==
    AvxToColumns(AvxQuarter(AvxToDiagonals(AvxQuarter(state_cpy))))

AvxRoundsLoop(state_cpy) ==
    ForLoop(LAMBDA i, sc : avx_double_round(sc), 0, ROUNDS, state_cpy)

\* for(size_t i = 0; i < ROW_SIZE; i++) state_cpy[i] = add(state_cpy[i], internal_state[i]);
AvxAddLoop(state_cpy, internal_state) ==
    ForLoop(LAMBDA i, sc : [sc EXCEPT ![i + 1] =
                               _mm256_add_epi32(@, at(internal_state, i))],
            0, ROW_SIZE, state_cpy)

\* chacha20_block() of the AVX engine: lanes 7 and 3 of row 3 advance by 2
avx_chacha20_block(internal_state) ==
    LET st == [internal_state EXCEPT ![3 + 1] =
                  _mm256_add_epi32(@, _mm256_set_epi32(U32(2), U32(0), U32(0), U32(0),
                                                       U32(2), U32(0), U32(0), U32(0)))]
        state_cpy == AvxRoundsLoop(st)
    IN  [internal_state |-> st, stream |-> AvxAddLoop(state_cpy, st)]

\* init() of the AVX engine
avx_init(key, block_count, nonce) ==
    << _mm256_set_epi32(at(CONSTANT_WORDS, 0), at(CONSTANT_WORDS, 1),
                        at(CONSTANT_WORDS, 2), at(CONSTANT_WORDS, 3),
                        at(CONSTANT_WORDS, 0), at(CONSTANT_WORDS, 1),
                        at(CONSTANT_WORDS, 2), at(CONSTANT_WORDS, 3)),
       _mm256_set_epi32(little_endian(at(key, 0)), little_endian(at(key, 1)),
                        little_endian(at(key, 2)), little_endian(at(key, 3)),
                        little_endian(at(key, 0)), little_endian(at(key, 1)),
                        little_endian(at(key, 2)), little_endian(at(key, 3))),
       _mm256_set_epi32(little_endian(at(key, 4)), little_endian(at(key, 5)),
                        little_endian(at(key, 6)), little_endian(at(key, 7)),
                        little_endian(at(key, 4)), little_endian(at(key, 5)),
                        little_endian(at(key, 6)), little_endian(at(key, 7))),
       _mm256_set_epi32(Sub32(block_count, U32(2)), little_endian(at(nonce, 0)),
                        little_endian(at(nonce, 1)), little_endian(at(nonce, 2)),
                        Sub32(block_count, U32(1)), little_endian(at(nonce, 0)),
                        little_endian(at(nonce, 1)), little_endian(at(nonce, 2))) >>

\* Chacha20(key, block_count, nonce) of chacha20_AVX.hpp
AvxChacha20(key, block_count, nonce) ==
    [key |-> key, block_count |-> block_count, nonce |-> nonce,
     internal_state |-> avx_init(key, block_count, nonce)]

\* ~Chacha20() of chacha20_AVX.hpp
AvxDestroy(e) ==
    [e EXCEPT !.key = secure_zero(@), !.block_count = U32(0),
              !.nonce = secure_zero(@)]

\* an inner loop body that would index the lanes forwards, as if
\* _mm256_storeu_si256 had stored the first word of a block first
AvxXorStep_Forward(stream_arr, message, stream_idx, v) ==
    IF v.message_idx < Len(message)
    THEN LET row1 == IF v.arr_idx \div 4 = ROW_SIZE THEN v.row + 1 ELSE v.row
             arr1 == IF v.arr_idx \div 4 = ROW_SIZE THEN 0 ELSE v.arr_idx
             corr2 == IF row1 = ROW_SIZE THEN ROW_SIZE ELSE v.corr
             row2 == IF row1 = ROW_SIZE THEN 0 ELSE row1
         IN  [output |->
                 [v.output EXCEPT ![v.message_idx + 1] =
                     Low8(Xor32(U32(at(message, v.message_idx)),
                                Shr32(at(at(stream_arr, row2),
                                         (arr1 \div 4) + corr2),
                                      8 * (stream_idx % 4))))],
              row |-> row2, corr |-> corr2,
              arr_idx |-> arr1 + 1, message_idx |-> v.message_idx + 1]
    ELSE v

\* the body of the inner for loop of the AVX encrypt on its variables
\* v = [output, row, corr, arr_idx, message_idx]; stream_idx is the loop's
\* counter.  An iteration whose condition message_idx < message.size()
\* fails leaves the variables as they are: the loop has ended.
AvxXorStep(stream_arr, message, stream_idx, v) ==
    IF v.message_idx < Len(message)
    THEN LET \* if(arr_idx/4 == ROW_SIZE) row++, arr_idx = 0;
             row1 == IF v.arr_idx \div 4 = ROW_SIZE THEN v.row + 1 ELSE v.row
             arr1 == IF v.arr_idx \div 4 = ROW_SIZE THEN 0 ELSE v.arr_idx
             \* if(row == ROW_SIZE) corr = ROW_SIZE, row = 0;
             corr2 == IF row1 = ROW_SIZE THEN ROW_SIZE ELSE v.corr
             row2 == IF row1 = ROW_SIZE THEN 0 ELSE row1
         IN  [output |->
                 [v.output EXCEPT ![v.message_idx + 1] =
                     Low8(Xor32(U32(at(message, v.message_idx)),
                                Shr32(at(at(stream_arr, row2),
                                         7 - (arr1 \div 4) - corr2),
                                      8 * (stream_idx % 4))))],
              row |-> row2, corr |-> corr2,
              \* stream_idx++, message_idx++, arr_idx++
              arr_idx |-> arr1 + 1, message_idx |-> v.message_idx + 1]
    ELSE v

\* for(stream_idx = 0, row = 0, corr = 0, arr_idx = 0;
\*     stream_idx < STATE_SIZE*8 && message_idx < message.size(); ...)
AvxXorLoop(stream_arr, message, output, message_idx) ==
    ForLoop(LAMBDA stream_idx, v : AvxXorStep(stream_arr, message, stream_idx, v),
            0, STATE_SIZE * 8,
            [output |-> output, row |-> 0, corr |-> 0, arr_idx |-> 0,
             message_idx |-> message_idx])

\* one iteration of the while loop of the AVX encrypt on its variables
\* v = [internal_state, output, message_idx], b being what this iteration's
\* chacha20_block() gave; _mm256_storeu_si256 puts lane j of stream[row]
\* into stream_arr[row][j]
AvxEncryptIteration(b, message, v) ==
    LET x == AvxXorLoop(b.stream, message, v.output, v.message_idx)
    IN  [internal_state |-> b.internal_state,
         output |-> x.output,
         message_idx |-> x.message_idx]

\* while(message_idx < message.size())
RECURSIVE AvxEncryptLoop(_, _)
AvxEncryptLoop(message, v) ==
    IF v.message_idx < Len(message)
    THEN AvxEncryptLoop(message,
                        AvxEncryptIteration(avx_chacha20_block(v.internal_state),
                                            message, v))
    ELSE v

\* encrypt(message) of the AVX engine
avx_encrypt(internal_state, message) ==
    AvxEncryptLoop(message,
                   [internal_state |-> internal_state,
                    output |-> ZeroBytes(Len(message)),
                    message_idx |-> 0])

\* ------------------------------------------------------------------------
\* The objects and their callers
\* ------------------------------------------------------------------------

\* The program's state: up to two scalar engines (instances 1 and 2) and
\* one AVX engine, each with the fields of its class, and the locals of the
\* test driver.  life, args, calls and seen record each object's history:
\* whether it is constructed or destroyed, the arguments its constructor
\* got, the message and the result of each encrypt call, and word 12 of the
\* matrix at each permutation.
VARIABLES sc, life, args, calls, seen,
          vx, vxLife, vxArgs, vxCalls,
          tc

scVars == <<sc, life, args, calls, seen>>
vxVars == <<vx, vxLife, vxArgs, vxCalls>>
vars == <<sc, life, args, calls, seen, vx, vxLife, vxArgs, vxCalls, tc>>

Inst == {1, 2}

\* the most encrypt calls made on one object
MaxCalls == 2

\* memory before a constructor has run: no field holds anything yet
NoEngine == [key |-> <<>>, block_count |-> U32(0), nonce |-> <<>>, internal_state |-> <<>>]
NoArgs == [key |-> <<>>, block_count |-> U32(0), nonce |-> <<>>]
NoTest == [pc |-> "idle"]

\* keys, nonces and counters the callers use
KeyZero == [i \in 1..KEY_WORDS |-> U32(0)]
KeyRfc ==
    << W(\H0001, \H0203), W(\H0405, \H0607), W(\H0809, \H0a0b), W(\H0c0d, \H0e0f),
       W(\H1011, \H1213), W(\H1415, \H1617), W(\H1819, \H1a1b), W(\H1c1d, \H1e1f) >>
NonceZero == [i \in 1..NONCE_WORDS |-> U32(0)]
NonceRfc == << W(0, 0), W(0, \H004a), W(0, 0) >>
CounterMax == W(H - 1, H - 1)

Triple(k, c, n) == [key |-> k, block_count |-> c, nonce |-> n]

Triples ==
    { Triple(KeyZero, U32(0), NonceZero),
      Triple(KeyRfc, U32(1), NonceRfc),
      Triple(KeyRfc, U32(0), NonceZero),
      Triple(KeyZero, U32(42), NonceRfc),
      Triple(KeyRfc, CounterMax, NonceRfc),
      Triple(KeyZero, Sub32(CounterMax, U32(1)), NonceZero) }

\* messages: n bytes of a fixed pattern
Msg(n) == [i \in 1..n |-> (i * 37 + n) % 256]
Messages == { Msg(0), Msg(1), Msg(64), Msg(65) }

InitCommon ==
    /\ sc = [i \in Inst |-> NoEngine]
    /\ life = [i \in Inst |-> "absent"]
    /\ args = [i \in Inst |-> NoArgs]
    /\ calls = [i \in Inst |-> <<>>]
    /\ seen = [i \in Inst |-> <<>>]
    /\ vx = NoEngine
    /\ vxLife = "absent"
    /\ vxArgs = NoArgs
    /\ vxCalls = <<>>
    /\ tc = NoTest

\* Chacha20 cipher(key, block_count, nonce) for scalar instance i
ScConstruct(i, t) ==
    /\ life[i] = "absent"
    /\ sc' = [sc EXCEPT ![i] = Chacha20(t.key, t.block_count, t.nonce)]
    /\ life' = [life EXCEPT ![i] = "live"]
    /\ args' = [args EXCEPT ![i] = t]
    /\ UNCHANGED <<calls, seen>>

\* an encrypt that would run its blocks on a copy of internal_state
ScEncrypted_OnCopy(i, message, r) ==
    /\ sc' = sc
    /\ calls' = [calls EXCEPT ![i] = Append(@, [message |-> message, output |-> r.output])]
    /\ seen' = [seen EXCEPT ![i] = @ \o r.seen]

\* an encrypt whose internal_state would be one static array of the class
ScEncrypted_Static(i, message, r) ==
    /\ sc' = [j \in Inst |-> [sc[j] EXCEPT !.internal_state = r.internal_state]]
    /\ calls' = [calls EXCEPT ![i] = Append(@, [message |-> message, output |-> r.output])]
    /\ seen' = [seen EXCEPT ![i] = @ \o r.seen]

\* cipher.encrypt(message) on scalar instance i; r is what encrypt gives
ScEncrypted(i, message, r) ==
    /\ sc' = [sc EXCEPT ![i].internal_state = r.internal_state]
    /\ calls' = [calls EXCEPT ![i] = Append(@, [message |-> message, output |-> r.output])]
    /\ seen' = [seen EXCEPT ![i] = @ \o r.seen]

ScEncrypt(i, message) ==
    /\ life[i] = "live"
    /\ Len(calls[i]) < MaxCalls
    /\ ScEncrypted(i, message, encrypt(sc[i].internal_state, message))
    /\ UNCHANGED <<life, args>>

\* scalar instance i goes out of scope: ~Chacha20()
ScDestruct(i) ==
    /\ life[i] = "live"
    /\ sc' = [sc EXCEPT ![i] = Destroy(@)]
    /\ life' = [life EXCEPT ![i] = "destroyed"]
    /\ UNCHANGED <<args, calls, seen>>

\* One scalar engine over its lifetime.
Init == InitCommon

Construct == \E t \in Triples : ScConstruct(1, t) /\ UNCHANGED <<vxVars, tc>>
Encrypt == \E m \in Messages : ScEncrypt(1, m) /\ UNCHANGED <<vxVars, tc>>
Destruct == ScDestruct(1) /\ UNCHANGED <<vxVars, tc>>

Next == Construct \/ Encrypt \/ Destruct

Spec == Init /\ [][Next]_vars

\* ------------------------------------------------------------------------
\* Properties of the scalar engine's lifetime (specification Spec)
\* ------------------------------------------------------------------------

\* what one encrypt call on a freshly constructed scalar engine returns
FreshEncrypt(key, block_count, nonce, message) ==
    encrypt(Chacha20(key, block_count, nonce).internal_state, message).output

\* the 64-byte blocks a message of n bytes takes
BlocksOf(n) == (n + 63) \div 64

\* the messages, the outputs and the blocks of the first q calls in cs
RECURSIVE ConcatMessages(_, _)
ConcatMessages(cs, q) ==
    IF q = 0 THEN <<>> ELSE ConcatMessages(cs, q - 1) \o cs[q].message

RECURSIVE ConcatOutputs(_, _)
ConcatOutputs(cs, q) ==
    IF q = 0 THEN <<>> ELSE ConcatOutputs(cs, q - 1) \o cs[q].output

RECURSIVE BlocksBefore(_, _)
BlocksBefore(cs, q) ==
    IF q <= 1 THEN 0 ELSE BlocksBefore(cs, q - 1) + BlocksOf(Len(cs[q - 1].message))

\* every call but the last took a whole number of blocks
CutAtBlocks(cs) == \A j \in 1..(Len(cs) - 1) : Len(cs[j].message) % 64 = 0

\* C5: the N-th block an instance permutes (N = 0, 1, ...) carries the
\* counter (C + N) mod 2^32 in word 12, C being the constructor's argument.
C5_CounterInvariant ==
    \A i \in Inst : \A n \in 1..Len(seen[i]) :
        seen[i][n] = Add32(args[i].block_count, U32(n - 1))

\* an instance constructed at 2^32 - 1 has permuted three blocks: the
\* counter has wrapped
C5_Witness ==
    /\ args[1].block_count = CounterMax
    /\ Len(seen[1]) >= 3
    /\ seen[1][2] = U32(0)

\* C6: the outputs of the pieces of a message cut at multiples of 64,
\* encrypted in order by one instance, are together what one encrypt call
\* of a fresh instance returns for the whole message; and each piece is
\* what a fresh instance constructed at the piece's block returns for it.
C6_BlockBoundary ==
    \A i \in Inst :
        (life[i] # "absent" /\ CutAtBlocks(calls[i])) =>
            /\ ConcatOutputs(calls[i], Len(calls[i])) =
                   FreshEncrypt(args[i].key, args[i].block_count, args[i].nonce,
                                ConcatMessages(calls[i], Len(calls[i])))
            /\ \A q \in 1..Len(calls[i]) :
                   calls[i][q].output =
                       FreshEncrypt(args[i].key,
                                    Add32(args[i].block_count,
                                          U32(Len(ConcatMessages(calls[i], q - 1)) \div 64)),
                                    args[i].nonce, calls[i][q].message)

\* a message of 64 * 2 + 1 bytes went through in a piece of 64 and one of 65
C6_Witness ==
    /\ Len(calls[1]) = 2
    /\ Len(calls[1][1].message) = 64
    /\ Len(calls[1][2].message) = 65

\* C8 as stated: two calls of encrypt with the same non-empty message on one
\* instance return the same bytes.
C8_SameBytesEachCall ==
    \A i \in Inst : \A p, q \in 1..Len(calls[i]) :
        (calls[i][p].message = calls[i][q].message /\ calls[i][p].message # <<>>)
            => calls[i][p].output = calls[i][q].output

\* C8 amended: what a call returns depends on the constructor's arguments,
\* on the message and on the number of blocks the earlier calls on the
\* instance generated: it is what a fresh instance constructed with the
\* counter advanced by that number returns.
C8_DependsOnBlocksBefore ==
    \A i \in Inst : \A q \in 1..Len(calls[i]) :
        calls[i][q].output =
            FreshEncrypt(args[i].key,
                         Add32(args[i].block_count, U32(BlocksBefore(calls[i], q))),
                         args[i].nonce, calls[i][q].message)

\* the same non-empty message was encrypted twice and came back different
C8_Witness ==
    /\ Len(calls[1]) = 2
    /\ calls[1][1].message = calls[1][2].message
    /\ calls[1][1].message # <<>>
    /\ calls[1][1].output # calls[1][2].output

\* C10: once the destructor has run, every word of key and of nonce and the
\* block_count field are zero.
C10_Zeroized ==
    \A i \in Inst :
        life[i] = "destroyed" =>
            /\ \A w \in 0..(KEY_WORDS - 1) : at(sc[i].key, w) = U32(0)
            /\ \A w \in 0..(NONCE_WORDS - 1) : at(sc[i].nonce, w) = U32(0)
            /\ Len(sc[i].key) = KEY_WORDS
            /\ Len(sc[i].nonce) = NONCE_WORDS
            /\ sc[i].block_count = U32(0)

\* an engine with a non-zero key, counter and nonce was destroyed after two
\* encrypt calls
C10_Witness ==
    /\ life[1] = "destroyed"
    /\ args[1].key = KeyRfc
    /\ args[1].nonce = NonceRfc
    /\ args[1].block_count = CounterMax
    /\ Len(calls[1]) = 2

\* ------------------------------------------------------------------------
\* A scalar engine and an AVX engine given the same arguments and messages
\* (specification SpecAvx)
\* ------------------------------------------------------------------------

AvxMessages == { Msg(0), Msg(1), Msg(64), Msg(65), Msg(129) }

\* Chacha20 cipher(key, block_count, nonce) of chacha20_AVX.hpp
VxConstruct(t) ==
    /\ vxLife = "absent"
    /\ vx' = AvxChacha20(t.key, t.block_count, t.nonce)
    /\ vxLife' = "live"
    /\ vxArgs' = t
    /\ UNCHANGED vxCalls

\* cipher.encrypt(message) on the AVX engine; r is what encrypt gives
VxEncrypted(message, r) ==
    /\ vx' = [vx EXCEPT !.internal_state = r.internal_state]
    /\ vxCalls' = Append(vxCalls, [message |-> message, output |-> r.output])

VxEncrypt(message) ==
    /\ vxLife = "live"
    /\ Len(vxCalls) < MaxCalls
    /\ VxEncrypted(message, avx_encrypt(vx.internal_state, message))
    /\ UNCHANGED <<vxLife, vxArgs>>

\* the AVX engine goes out of scope
VxDestruct ==
    /\ vxLife = "live"
    /\ vx' = AvxDestroy(vx)
    /\ vxLife' = "destroyed"
    /\ UNCHANGED <<vxArgs, vxCalls>>

ConstructBoth == \E t \in Triples : ScConstruct(1, t) /\ VxConstruct(t) /\ UNCHANGED tc
EncryptBoth == \E m \in AvxMessages : ScEncrypt(1, m) /\ VxEncrypt(m) /\ UNCHANGED tc
DestructBoth == ScDestruct(1) /\ VxDestruct /\ UNCHANGED tc

NextAvx == ConstructBoth \/ EncryptBoth \/ DestructBoth

SpecAvx == Init /\ [][NextAvx]_vars

\* C3: every encrypt call, on a fresh engine or after earlier calls, on the
\* scalar and on the AVX engine, returns exactly as many bytes as its
\* message has: none for an empty message, no padding and no truncation.
C3_LengthPreserved ==
    /\ \A i \in Inst : \A q \in 1..Len(calls[i]) :
           Len(calls[i][q].output) = Len(calls[i][q].message)
    /\ \A q \in 1..Len(vxCalls) :
           Len(vxCalls[q].output) = Len(vxCalls[q].message)

\* both engines took an empty message, then one of 64 + 1 bytes
C3_Witness ==
    /\ Len(calls[1]) = 2 /\ Len(vxCalls) = 2
    /\ calls[1][1].message = <<>> /\ vxCalls[1].message = <<>>
    /\ Len(calls[1][2].message) = 65 /\ Len(vxCalls[2].message) = 65

\* C4: the first encrypt call on an AVX engine returns the bytes the first
\* encrypt call on a scalar engine constructed with the same key, counter
\* and nonce returns for the same message.
C4_FreshAvxMatchesScalar ==
    (/\ Len(vxCalls) >= 1 /\ Len(calls[1]) >= 1
     /\ vxArgs = args[1]
     /\ vxCalls[1].message = calls[1][1].message)
        => vxCalls[1].output = calls[1][1].output

\* both engines, constructed at 2^32 - 1, took 128 + 1 bytes: the second
\* block of the first pair is the one after the counter wraps
C4_Witness ==
    /\ vxArgs.block_count = CounterMax
    /\ args[1].block_count = CounterMax
    /\ Len(vxCalls) >= 1 /\ Len(calls[1]) >= 1
    /\ Len(vxCalls[1].message) = 129
    /\ Len(calls[1][1].message) = 129
    /\ Len(vxCalls[1].output) = 129

\* C7: over any sequence of encrypt calls applied in the same order to a
\* scalar engine and to an AVX engine constructed with the same key, counter
\* and nonce, every call returns the same bytes from both.
C7_AvxMatchesScalarEveryCall ==
    vxArgs = args[1] =>
        \A q \in 1..Len(vxCalls) :
            (q <= Len(calls[1]) /\ \A p \in 1..q : vxCalls[p].message = calls[1][p].message)
                => vxCalls[q].output = calls[1][q].output

\* ------------------------------------------------------------------------
\* Two scalar engines in one scope (specification SpecPair): the second is
\* given, call by call, what the first was given or what the first returned
\* ------------------------------------------------------------------------

PairTriples ==
    { Triple(KeyRfc, U32(1), NonceRfc), Triple(KeyZero, CounterMax, NonceZero) }

PairMessages == { Msg(1), Msg(65) }

ConstructFirst == \E t \in PairTriples : ScConstruct(1, t) /\ UNCHANGED <<vxVars, tc>>

ConstructSecond ==
    /\ life[1] = "live"
    /\ \E t \in PairTriples : ScConstruct(2, t)
    /\ UNCHANGED <<vxVars, tc>>

EncryptFirst == \E m \in PairMessages : ScEncrypt(1, m) /\ UNCHANGED <<vxVars, tc>>

EncryptSecond ==
    /\ Len(calls[2]) < Len(calls[1])
    /\ \E m \in { calls[1][Len(calls[2]) + 1].message, calls[1][Len(calls[2]) + 1].output } :
           ScEncrypt(2, m)
    /\ UNCHANGED <<vxVars, tc>>

\* objects of one scope are destroyed in the reverse order of construction
DestructSecond == ScDestruct(2) /\ UNCHANGED <<vxVars, tc>>

DestructFirst ==
    /\ life[2] # "live"
    /\ ScDestruct(1)
    /\ UNCHANGED <<vxVars, tc>>

NextPair ==
    \/ ConstructFirst
    \/ ConstructSecond
    \/ EncryptFirst
    \/ EncryptSecond
    \/ DestructSecond
    \/ DestructFirst

SpecPair == Init /\ [][NextPair]_vars

\* C2: what one encrypt call on a fresh engine returns for m, given to one
\* encrypt call on another fresh engine constructed with the same key,
\* counter and nonce, comes back as m.
C2_Involution ==
    (/\ args[1] = args[2]
     /\ Len(calls[1]) >= 1 /\ Len(calls[2]) >= 1
     /\ calls[2][1].message = calls[1][1].output)
        => calls[2][1].output = calls[1][1].message

\* the second engine, constructed like the first, has decrypted the 65
\* bytes the first one returned
C2_Witness ==
    /\ args[1] = args[2]
    /\ Len(calls[1]) >= 1 /\ Len(calls[2]) >= 1
    /\ Len(calls[1][1].message) = 65
    /\ calls[1][1].output # calls[1][1].message
    /\ calls[2][1].message = calls[1][1].output
    /\ calls[2][1].output = calls[1][1].message

\* C9: two engines constructed with the same key, counter and nonce and
\* given the same messages in the same order return the same outputs call
\* by call, however their calls interleave.
C9_Deterministic ==
    args[1] = args[2] =>
        \A q \in 1..Len(calls[2]) :
            (q <= Len(calls[1]) /\ \A p \in 1..q : calls[2][p].message = calls[1][p].message)
                => calls[2][q].output = calls[1][q].output

\* two like engines have both taken the same two messages
C9_Witness ==
    /\ args[1] = args[2]
    /\ life[1] = "live" /\ life[2] = "live"
    /\ Len(calls[1]) = 2 /\ Len(calls[2]) = 2
    /\ calls[2][1].message = calls[1][1].message
    /\ calls[2][2].message = calls[1][2].message
    /\ Len(calls[1][2].message) = 65
    /\ calls[2][2].output = calls[1][2].output
    /\ calls[1][1].output # calls[1][2].output

\* ------------------------------------------------------------------------
\* test.cpp: the helpers of namespace util
\* ------------------------------------------------------------------------

\* A std::string is the sequence of its characters.  The characters of a hex
\* or decimal string are written "0" .. "f"; those of the decoded message are
\* the values of char, -128 .. 127.
HexChars ==
    << "0", "1", "2", "3", "4", "5", "6", "7", "8", "9", "a", "b", "c", "d", "e", "f" >>
HexCharsUpper ==
    << "0", "1", "2", "3", "4", "5", "6", "7", "8", "9", "A", "B", "C", "D", "E", "F" >>

\* the digit std::stoul reads from character c
DigitOf(c) == CHOOSE d \in 0..15 : HexChars[d + 1] = c \/ HexCharsUpper[d + 1] = c

\* x * k for a small k, as the unsigned accumulation of std::stoul, kept to
\* the 32 bits its callers store
MulSmall(x, k) == W((x[1] * k + ((x[2] * k) \div H)) % H, (x[2] * k) % H)

\* std::stoul(str, nullptr, base) stored into a std::uint32_t
RECURSIVE StoulFrom(_, _, _, _)
StoulFrom(str, base, i, acc) ==
    IF i > Len(str) THEN acc
    ELSE StoulFrom(str, base, i + 1, Add32(MulSmall(acc, base), U32(DigitOf(str[i]))))

stoul(str, base) == StoulFrom(str, base, 1, U32(0))

\* str.substr(pos, n)
substr(str, pos, n) ==
    SubSeq(str, pos + 1, IF pos + n < Len(str) THEN pos + n ELSE Len(str))

\* util::hex_str_to_vec: one word per 8 hex characters
hex_str_to_vec(str) ==
    [k \in 1..((Len(str) + 7) \div 8) |-> stoul(substr(str, 8 * (k - 1), 8), 16)]

\* util::str_to_block
str_to_block(block_count) == stoul(block_count, 10)

\* static_cast<char>(unsigned long), char being signed
ToChar(x) == IF x[2] % 256 >= 128 THEN (x[2] % 256) - 256 ELSE x[2] % 256

\* util::hex_str_to_str: one character per 2 hex characters
hex_str_to_str(str) ==
    [k \in 1..((Len(str) + 1) \div 2) |-> ToChar(stoul(substr(str, 2 * (k - 1), 2), 16))]

\* util::str_to_vec: each char converted to std::uint8_t
str_to_vec(str) == [k \in 1..Len(str) |-> (str[k] + 256) % 256]

\* util::vec_to_hex: std::hex, std::setfill('0'), std::setw(2) per byte
vec_to_hex(vec) ==
    [k \in 1..(2 * Len(vec)) |->
        IF k % 2 = 1 THEN HexChars[(vec[(k + 1) \div 2] \div 16) + 1]
        ELSE HexChars[(vec[(k + 1) \div 2] % 16) + 1]]

\* std::copy_n(v.begin(), n, arr.begin())
copy_n(v, n) == SubSeq(v, 1, n)

ITERATIONS == 100000

\* main, test.cpp:120-124: the arguments of the first run_test_case call
Case1Key ==
    << "0", "0", "0", "1", "0", "2", "0", "3", "0", "4", "0", "5", "0", "6", "0", "7",
       "0", "8", "0", "9", "0", "a", "0", "b", "0", "c", "0", "d", "0", "e", "0", "f",
       "1", "0", "1", "1", "1", "2", "1", "3", "1", "4", "1", "5", "1", "6", "1", "7",
       "1", "8", "1", "9", "1", "a", "1", "b", "1", "c", "1", "d", "1", "e", "1", "f" >>

Case1BlockCount == << "1" >>

Case1Nonce ==
    << "0", "0", "0", "0", "0", "0", "0", "0", "0", "0", "0", "0", "0", "0", "4", "a",
       "0", "0", "0", "0", "0", "0", "0", "0" >>

Case1Message ==
    << "4", "c", "6", "1", "6", "4", "6", "9", "6", "5", "7", "3", "2", "0", "6", "1",
       "6", "e", "6", "4", "2", "0", "4", "7", "6", "5", "6", "e", "7", "4", "6", "c",
       "6", "5", "6", "d", "6", "5", "6", "e", "2", "0", "6", "f", "6", "6", "2", "0",
       "7", "4", "6", "8", "6", "5", "2", "0", "6", "3", "6", "c", "6", "1", "7", "3",
       "7", "3", "2", "0", "6", "f", "6", "6", "2", "0", "2", "7", "3", "9", "3", "9",
       "3", "a", "2", "0", "4", "9", "6", "6", "2", "0", "4", "9", "2", "0", "6", "3",
       "6", "f", "7", "5", "6", "c", "6", "4", "2", "0", "6", "f", "6", "6", "6", "6",
       "6", "5", "7", "2", "2", "0", "7", "9", "6", "f", "7", "5", "2", "0", "6", "f",
       "6", "e", "6", "c", "7", "9", "2", "0", "6", "f", "6", "e", "6", "5", "2", "0",
       "7", "4", "6", "9", "7", "0", "2", "0", "6", "6", "6", "f", "7", "2", "2", "0",
       "7", "4", "6", "8", "6", "5", "2", "0", "6", "6", "7", "5", "7", "4", "7", "5",
       "7", "2", "6", "5", "2", "c", "2", "0", "7", "3", "7", "5", "6", "e", "7", "3",
       "6", "3", "7", "2", "6", "5", "6", "5", "6", "e", "2", "0", "7", "7", "6", "f",
       "7", "5", "6", "c", "6", "4", "2", "0", "6", "2", "6", "5", "2", "0", "6", "9",
       "7", "4", "2", "e" >>

Case1Expected ==
    << "6", "e", "2", "e", "3", "5", "9", "a", "2", "5", "6", "8", "f", "9", "8", "0",
       "4", "1", "b", "a", "0", "7", "2", "8", "d", "d", "0", "d", "6", "9", "8", "1",
       "e", "9", "7", "e", "7", "a", "e", "c", "1", "d", "4", "3", "6", "0", "c", "2",
       "0", "a", "2", "7", "a", "f", "c", "c", "f", "d", "9", "f", "a", "e", "0", "b",
       "f", "9", "1", "b", "6", "5", "c", "5", "5", "2", "4", "7", "3", "3", "a", "b",
       "8", "f", "5", "9", "3", "d", "a", "b", "c", "d", "6", "2", "b", "3", "5", "7",
       "1", "6", "3", "9", "d", "6", "2", "4", "e", "6", "5", "1", "5", "2", "a", "b",
       "8", "f", "5", "3", "0", "c", "3", "5", "9", "f", "0", "8", "6", "1", "d", "8",
       "0", "7", "c", "a", "0", "d", "b", "f", "5", "0", "0", "d", "6", "a", "6", "1",
       "5", "6", "a", "3", "8", "e", "0", "8", "8", "a", "2", "2", "b", "6", "5", "e",
       "5", "2", "b", "c", "5", "1", "4", "d", "1", "6", "c", "c", "f", "8", "0", "6",
       "8", "1", "8", "c", "e", "9", "1", "a", "b", "7", "7", "9", "3", "7", "3", "6",
       "5", "a", "f", "9", "0", "b", "b", "f", "7", "4", "a", "3", "5", "b", "e", "6",
       "b", "4", "0", "b", "8", "e", "e", "d", "f", "2", "7", "8", "5", "e", "4", "2",
       "8", "7", "4", "d" >>

\* main, test.cpp:126-130: the arguments of the second run_test_case call
Case2Key ==
    << "0", "0", "0", "0", "0", "0", "0", "0", "0", "0", "0", "0", "0", "0", "0", "0",
       "0", "0", "0", "0", "0", "0", "0", "0", "0", "0", "0", "0", "0", "0", "0", "0",
       "0", "0", "0", "0", "0", "0", "0", "0", "0", "0", "0", "0", "0", "0", "0", "0",
       "0", "0", "0", "0", "0", "0", "0", "0", "0", "0", "0", "0", "0", "0", "0", "0" >>

Case2BlockCount == << "0" >>

Case2Nonce ==
    << "0", "0", "0", "0", "0", "0", "0", "0", "0", "0", "0", "0", "0", "0", "0", "0",
       "0", "0", "0", "0", "0", "0", "0", "0" >>

Case2Message ==
    << "0", "0", "0", "0", "0", "0", "0", "0", "0", "0", "0", "0", "0", "0", "0", "0",
       "0", "0", "0", "0", "0", "0", "0", "0", "0", "0", "0", "0", "0", "0", "0", "0",
       "0", "0", "0", "0", "0", "0", "0", "0", "0", "0", "0", "0", "0", "0", "0", "0",
       "0", "0", "0", "0", "0", "0", "0", "0", "0", "0", "0", "0", "0", "0", "0", "0",
       "0", "0", "0", "0", "0", "0", "0", "0", "0", "0", "0", "0", "0", "0", "0", "0",
       "0", "0", "0", "0", "0", "0", "0", "0", "0", "0", "0", "0", "0", "0", "0", "0",
       "0", "0", "0", "0", "0", "0", "0", "0", "0", "0", "0", "0", "0", "0", "0", "0",
       "0", "0", "0", "0", "0", "0", "0", "0", "0", "0", "0", "0", "0", "0", "0", "0" >>

Case2Expected ==
    << "7", "6", "b", "8", "e", "0", "a", "d", "a", "0", "f", "1", "3", "d", "9", "0",
       "4", "0", "5", "d", "6", "a", "e", "5", "5", "3", "8", "6", "b", "d", "2", "8",
       "b", "d", "d", "2", "1", "9", "b", "8", "a", "0", "8", "d", "e", "d", "1", "a",
       "a", "8", "3", "6", "e", "f", "c", "c", "8", "b", "7", "7", "0", "d", "c", "7",
       "d", "a", "4", "1", "5", "9", "7", "c", "5", "1", "5", "7", "4", "8", "8", "d",
       "7", "7", "2", "4", "e", "0", "3", "f", "b", "8", "d", "8", "4", "a", "3", "7",
       "6", "a", "4", "3", "b", "8", "f", "4", "1", "5", "1", "8", "a", "1", "1", "c",
       "c", "3", "8", "7", "b", "6", "6", "9", "b", "2", "e", "e", "6", "5", "8", "6" >>

\* main, test.cpp:132-136: the arguments of the third run_test_case call
Case3Key ==
    << "0", "0", "0", "0", "0", "0", "0", "0", "0", "0", "0", "0", "0", "0", "0", "0",
       "0", "0", "0", "0", "0", "0", "0", "0", "0", "0", "0", "0", "0", "0", "0", "0",
       "0", "0", "0", "0", "0", "0", "0", "0", "0", "0", "0", "0", "0", "0", "0", "0",
       "0", "0", "0", "0", "0", "0", "0", "0", "0", "0", "0", "0", "0", "0", "0", "1" >>

Case3BlockCount == << "1" >>

Case3Nonce ==
    << "0", "0", "0", "0", "0", "0", "0", "0", "0", "0", "0", "0", "0", "0", "0", "0",
       "0", "0", "0", "0", "0", "0", "0", "2" >>

Case3Message ==
    << "4", "1", "6", "e", "7", "9", "2", "0", "7", "3", "7", "5", "6", "2", "6", "d",
       "6", "9", "7", "3", "7", "3", "6", "9", "6", "f", "6", "e", "2", "0", "7", "4",
       "6", "f", "2", "0", "7", "4", "6", "8", "6", "5", "2", "0", "4", "9", "4", "5",
       "5", "4", "4", "6", "2", "0", "6", "9", "6", "e", "7", "4", "6", "5", "6", "e",
       "6", "4", "6", "5", "6", "4", "2", "0", "6", "2", "7", "9", "2", "0", "7", "4",
       "6", "8", "6", "5", "2", "0", "4", "3", "6", "f", "6", "e", "7", "4", "7", "2",
       "6", "9", "6", "2", "7", "5", "7", "4", "6", "f", "7", "2", "2", "0", "6", "6",
       "6", "f", "7", "2", "2", "0", "7", "0", "7", "5", "6", "2", "6", "c", "6", "9",
       "6", "3", "6", "1", "7", "4", "6", "9", "6", "f", "6", "e", "2", "0", "6", "1",
       "7", "3", "2", "0", "6", "1", "6", "c", "6", "c", "2", "0", "6", "f", "7", "2",
       "2", "0", "7", "0", "6", "1", "7", "2", "7", "4", "2", "0", "6", "f", "6", "6",
       "2", "0", "6", "1", "6", "e", "2", "0", "4", "9", "4", "5", "5", "4", "4", "6",
       "2", "0", "4", "9", "6", "e", "7", "4", "6", "5", "7", "2", "6", "e", "6", "5",
       "7", "4", "2", "d", "4", "4", "7", "2", "6", "1", "6", "6", "7", "4", "2", "0",
       "6", "f", "7", "2", "2", "0", "5", "2", "4", "6", "4", "3", "2", "0", "6", "1",
       "6", "e", "6", "4", "2", "0", "6", "1", "6", "e", "7", "9", "2", "0", "7", "3",
       "7", "4", "6", "1", "7", "4", "6", "5", "6", "d", "6", "5", "6", "e", "7", "4",
       "2", "0", "6", "d", "6", "1", "6", "4", "6", "5", "2", "0", "7", "7", "6", "9",
       "7", "4", "6", "8", "6", "9", "6", "e", "2", "0", "7", "4", "6", "8", "6", "5",
       "2", "0", "6", "3", "6", "f", "6", "e", "7", "4", "6", "5", "7", "8", "7", "4",
       "2", "0", "6", "f", "6", "6", "2", "0", "6", "1", "6", "e", "2", "0", "4", "9",
       "4", "5", "5", "4", "4", "6", "2", "0", "6", "1", "6", "3", "7", "4", "6", "9",
       "7", "6", "6", "9", "7", "4", "7", "9", "2", "0", "6", "9", "7", "3", "2", "0",
       "6", "3", "6", "f", "6", "e", "7", "3", "6", "9", "6", "4", "6", "5", "7", "2",
       "6", "5", "6", "4", "2", "0", "6", "1", "6", "e", "2", "0", "2", "2", "4", "9",
       "4", "5", "5", "4", "4", "6", "2", "0", "4", "3", "6", "f", "6", "e", "7", "4",
       "7", "2", "6", "9", "6", "2", "7", "5", "7", "4", "6", "9", "6", "f", "6", "e",
       "2", "2", "2", "e", "2", "0", "5", "3", "7", "5", "6", "3", "6", "8", "2", "0",
       "7", "3", "7", "4", "6", "1", "7", "4", "6", "5", "6", "d", "6", "5", "6", "e",
       "7", "4", "7", "3", "2", "0", "6", "9", "6", "e", "6", "3", "6", "c", "7", "5",
       "6", "4", "6", "5", "2", "0", "6", "f", "7", "2", "6", "1", "6", "c", "2", "0",
       "7", "3", "7", "4", "6", "1", "7", "4", "6", "5", "6", "d", "6", "5", "6", "e",
       "7", "4", "7", "3", "2", "0", "6", "9", "6", "e", "2", "0", "4", "9", "4", "5",
       "5", "4", "4", "6", "2", "0", "7", "3", "6", "5", "7", "3", "7", "3", "6", "9",
       "6", "f", "6", "e", "7", "3", "2", "c", "2", "0", "6", "1", "7", "3", "2", "0",
       "7", "7", "6", "5", "6", "c", "6", "c", "2", "0", "6", "1", "7", "3", "2", "0",
       "7", "7", "7", "2", "6", "9", "7", "4", "7", "4", "6", "5", "6", "e", "2", "0",
       "6", "1", "6", "e", "6", "4", "2", "0", "6", "5", "6", "c", "6", "5", "6", "3",
       "7", "4", "7", "2", "6", "f", "6", "e", "6", "9", "6", "3", "2", "0", "6", "3",
       "6", "f", "6", "d", "6", "d", "7", "5", "6", "e", "6", "9", "6", "3", "6", "1",
       "7", "4", "6", "9", "6", "f", "6", "e", "7", "3", "2", "0", "6", "d", "6", "1",
       "6", "4", "6", "5", "2", "0", "6", "1", "7", "4", "2", "0", "6", "1", "6", "e",
       "7", "9", "2", "0", "7", "4", "6", "9", "6", "d", "6", "5", "2", "0", "6", "f",
       "7", "2", "2", "0", "7", "0", "6", "c", "6", "1", "6", "3", "6", "5", "2", "c",
       "2", "0", "7", "7", "6", "8", "6", "9", "6", "3", "6", "8", "2", "0", "6", "1",
       "7", "2", "6", "5", "2", "0", "6", "1", "6", "4", "6", "4", "7", "2", "6", "5",
       "7", "3", "7", "3", "6", "5", "6", "4", "2", "0", "7", "4", "6", "f" >>

Case3Expected ==
    << "a", "3", "f", "b", "f", "0", "7", "d", "f", "3", "f", "a", "2", "f", "d", "e",
       "4", "f", "3", "7", "6", "c", "a", "2", "3", "e", "8", "2", "7", "3", "7", "0",
       "4", "1", "6", "0", "5", "d", "9", "f", "4", "f", "4", "f", "5", "7", "b", "d",
       "8", "c", "f", "f", "2", "c", "1", "d", "4", "b", "7", "9", "5", "5", "e", "c",
       "2", "a", "9", "7", "9", "4", "8", "b", "d", "3", "7", "2", "2", "9", "1", "5",
       "c", "8", "f", "3", "d", "3", "3", "7", "f", "7", "d", "3", "7", "0", "0", "5",
       "0", "e", "9", "e", "9", "6", "d", "6", "4", "7", "b", "7", "c", "3", "9", "f",
       "5", "6", "e", "0", "3", "1", "c", "a", "5", "e", "b", "6", "2", "5", "0", "d",
       "4", "0", "4", "2", "e", "0", "2", "7", "8", "5", "e", "c", "e", "c", "f", "a",
       "4", "b", "4", "b", "b", "5", "e", "8", "e", "a", "d", "0", "4", "4", "0", "e",
       "2", "0", "b", "6", "e", "8", "d", "b", "0", "9", "d", "8", "8", "1", "a", "7",
       "c", "6", "1", "3", "2", "f", "4", "2", "0", "e", "5", "2", "7", "9", "5", "0",
       "4", "2", "b", "d", "f", "a", "7", "7", "7", "3", "d", "8", "a", "9", "0", "5",
       "1", "4", "4", "7", "b", "3", "2", "9", "1", "c", "e", "1", "4", "1", "1", "c",
       "6", "8", "0", "4", "6", "5", "5", "5", "2", "a", "a", "6", "c", "4", "0", "5",
       "b", "7", "7", "6", "4", "d", "5", "e", "8", "7", "b", "e", "a", "8", "5", "a",
       "d", "0", "0", "f", "8", "4", "4", "9", "e", "d", "8", "f", "7", "2", "d", "0",
       "d", "6", "6", "2", "a", "b", "0", "5", "2", "6", "9", "1", "c", "a", "6", "6",
       "4", "2", "4", "b", "c", "8", "6", "d", "2", "d", "f", "8", "0", "e", "a", "4",
       "1", "f", "4", "3", "a", "b", "f", "9", "3", "7", "d", "3", "2", "5", "9", "d",
       "c", "4", "b", "2", "d", "0", "d", "f", "b", "4", "8", "a", "6", "c", "9", "1",
       "3", "9", "d", "d", "d", "7", "f", "7", "6", "9", "6", "6", "e", "9", "2", "8",
       "e", "6", "3", "5", "5", "5", "3", "b", "a", "7", "6", "c", "5", "c", "8", "7",
       "9", "d", "7", "b", "3", "5", "d", "4", "9", "e", "b", "2", "e", "6", "2", "b",
       "0", "8", "7", "1", "c", "d", "a", "c", "6", "3", "8", "9", "3", "9", "e", "2",
       "5", "e", "8", "a", "1", "e", "0", "e", "f", "9", "d", "5", "2", "8", "0", "f",
       "a", "8", "c", "a", "3", "2", "8", "b", "3", "5", "1", "c", "3", "c", "7", "6",
       "5", "9", "8", "9", "c", "b", "c", "f", "3", "d", "a", "a", "8", "b", "6", "c",
       "c", "c", "3", "a", "a", "f", "9", "f", "3", "9", "7", "9", "c", "9", "2", "b",
       "3", "7", "2", "0", "f", "c", "8", "8", "d", "c", "9", "5", "e", "d", "8", "4",
       "a", "1", "b", "e", "0", "5", "9", "c", "6", "4", "9", "9", "b", "9", "f", "d",
       "a", "2", "3", "6", "e", "7", "e", "8", "1", "8", "b", "0", "4", "b", "0", "b",
       "c", "3", "9", "c", "1", "e", "8", "7", "6", "b", "1", "9", "3", "b", "f", "e",
       "5", "5", "6", "9", "7", "5", "3", "f", "8", "8", "1", "2", "8", "c", "c", "0",
       "8", "a", "a", "a", "9", "b", "6", "3", "d", "1", "a", "1", "6", "f", "8", "0",
       "e", "f", "2", "5", "5", "4", "d", "7", "1", "8", "9", "c", "4", "1", "1", "f",
       "5", "8", "6", "9", "c", "a", "5", "2", "c", "5", "b", "8", "3", "f", "a", "3",
       "6", "f", "f", "2", "1", "6", "b", "9", "c", "1", "d", "3", "0", "0", "6", "2",
       "b", "e", "b", "c", "f", "d", "2", "d", "c", "5", "b", "c", "e", "0", "9", "1",
       "1", "9", "3", "4", "f", "d", "a", "7", "9", "a", "8", "6", "f", "6", "e", "6",
       "9", "8", "c", "e", "d", "7", "5", "9", "c", "3", "f", "f", "9", "b", "6", "4",
       "7", "7", "3", "3", "8", "f", "3", "d", "a", "4", "f", "9", "c", "d", "8", "5",
       "1", "4", "e", "a", "9", "9", "8", "2", "c", "c", "a", "f", "b", "3", "4", "1",
       "b", "2", "3", "8", "4", "d", "d", "9", "0", "2", "f", "3", "d", "1", "a", "b",
       "7", "a", "c", "6", "1", "d", "d", "2", "9", "c", "6", "f", "2", "1", "b", "a",
       "5", "b", "8", "6", "2", "f", "3", "7", "3", "0", "e", "3", "7", "c", "f", "d",
       "c", "4", "f", "d", "8", "0", "6", "c", "2", "2", "f", "2", "2", "1" >>

\* main, test.cpp:138-142: the arguments of the fourth run_test_case call
Case4Key ==
    << "1", "c", "9", "2", "4", "0", "a", "5", "e", "b", "5", "5", "d", "3", "8", "a",
       "f", "3", "3", "3", "8", "8", "8", "6", "0", "4", "f", "6", "b", "5", "f", "0",
       "4", "7", "3", "9", "1", "7", "c", "1", "4", "0", "2", "b", "8", "0", "0", "9",
       "9", "d", "c", "a", "5", "c", "b", "c", "2", "0", "7", "0", "7", "5", "c", "0" >>

Case4BlockCount == << "4", "2" >>

Case4Nonce ==
    << "0", "0", "0", "0", "0", "0", "0", "0", "0", "0", "0", "0", "0", "0", "0", "0",
       "0", "0", "0", "0", "0", "0", "0", "2" >>

Case4Message ==
    << "2", "7", "5", "4", "7", "7", "6", "1", "7", "3", "2", "0", "6", "2", "7", "2",
       "6", "9", "6", "c", "6", "c", "6", "9", "6", "7", "2", "c", "2", "0", "6", "1",
       "6", "e", "6", "4", "2", "0", "7", "4", "6", "8", "6", "5", "2", "0", "7", "3",
       "6", "c", "6", "9", "7", "4", "6", "8", "7", "9", "2", "0", "7", "4", "6", "f",
       "7", "6", "6", "5", "7", "3", "0", "a", "4", "4", "6", "9", "6", "4", "2", "0",
       "6", "7", "7", "9", "7", "2", "6", "5", "2", "0", "6", "1", "6", "e", "6", "4",
       "2", "0", "6", "7", "6", "9", "6", "d", "6", "2", "6", "c", "6", "5", "2", "0",
       "6", "9", "6", "e", "2", "0", "7", "4", "6", "8", "6", "5", "2", "0", "7", "7",
       "6", "1", "6", "2", "6", "5", "3", "a", "0", "a", "4", "1", "6", "c", "6", "c",
       "2", "0", "6", "d", "6", "9", "6", "d", "7", "3", "7", "9", "2", "0", "7", "7",
       "6", "5", "7", "2", "6", "5", "2", "0", "7", "4", "6", "8", "6", "5", "2", "0",
       "6", "2", "6", "f", "7", "2", "6", "f", "6", "7", "6", "f", "7", "6", "6", "5",
       "7", "3", "2", "c", "0", "a", "4", "1", "6", "e", "6", "4", "2", "0", "7", "4",
       "6", "8", "6", "5", "2", "0", "6", "d", "6", "f", "6", "d", "6", "5", "2", "0",
       "7", "2", "6", "1", "7", "4", "6", "8", "7", "3", "2", "0", "6", "f", "7", "5",
       "7", "4", "6", "7", "7", "2", "6", "1", "6", "2", "6", "5", "2", "e" >>

Case4Expected ==
    << "6", "2", "e", "6", "3", "4", "7", "f", "9", "5", "e", "d", "8", "7", "a", "4",
       "5", "f", "f", "a", "e", "7", "4", "2", "6", "f", "2", "7", "a", "1", "d", "f",
       "5", "f", "b", "6", "9", "1", "1", "0", "0", "4", "4", "c", "0", "d", "7", "3",
       "1", "1", "8", "e", "f", "f", "a", "9", "5", "b", "0", "1", "e", "5", "c", "f",
       "1", "6", "6", "d", "3", "d", "f", "2", "d", "7", "2", "1", "c", "a", "f", "9",
       "b", "2", "1", "e", "5", "f", "b", "1", "4", "c", "6", "1", "6", "8", "7", "1",
       "f", "d", "8", "4", "c", "5", "4", "f", "9", "d", "6", "5", "b", "2", "8", "3",
       "1", "9", "6", "c", "7", "f", "e", "4", "f", "6", "0", "5", "5", "3", "e", "b",
       "f", "3", "9", "c", "6", "4", "0", "2", "c", "4", "2", "2", "3", "4", "e", "3",
       "2", "a", "3", "5", "6", "b", "3", "e", "7", "6", "4", "3", "1", "2", "a", "6",
       "1", "a", "5", "5", "3", "2", "0", "5", "5", "7", "1", "6", "e", "a", "d", "6",
       "9", "6", "2", "5", "6", "8", "f", "8", "7", "d", "3", "f", "3", "f", "7", "7",
       "0", "4", "c", "6", "a", "8", "d", "1", "b", "c", "d", "1", "b", "f", "4", "d",
       "5", "0", "d", "6", "1", "5", "4", "b", "6", "d", "a", "7", "3", "1", "b", "1",
       "8", "7", "b", "5", "8", "d", "f", "d", "7", "2", "8", "a", "f", "a", "3", "6",
       "7", "5", "7", "a", "7", "9", "7", "a", "c", "1", "8", "8", "d", "1" >>
\* run_test_case's parameters
TestCase(key, block_count, nonce, message, expected_result) ==
    [key |-> key, block_count |-> block_count, nonce |-> nonce,
     message |-> message, expected_result |-> expected_result]

MainCases ==
    { TestCase(Case1Key, Case1BlockCount, Case1Nonce, Case1Message, Case1Expected),
      TestCase(Case2Key, Case2BlockCount, Case2Nonce, Case2Message, Case2Expected),
      TestCase(Case3Key, Case3BlockCount, Case3Nonce, Case3Message, Case3Expected),
      TestCase(Case4Key, Case4BlockCount, Case4Nonce, Case4Message, Case4Expected) }

\* ------------------------------------------------------------------------
\* RFC 8439, sections 2.1 to 2.4: the cipher the engine is compared with,
\* over bytes: a 32-byte key, a 32-bit counter, a 12-byte nonce
\* ------------------------------------------------------------------------

RfcRotl(x, n) == Or32(Shl32(x, n), Shr32(x, 32 - n))

\* 2.1: a += b; d ^= a; d <<<= 16; c += d; b ^= c; b <<<= 12;
\*      a += b; d ^= a; d <<<= 8;  c += d; b ^= c; b <<<= 7
RfcQuarter(a, b, c, d) ==
    LET a1 == Add32(a, b)    d1 == Xor32(d, a1)    d2 == RfcRotl(d1, 16)
        c1 == Add32(c, d2)   b1 == Xor32(b, c1)    b2 == RfcRotl(b1, 12)
        a2 == Add32(a1, b2)  d3 == Xor32(d2, a2)   d4 == RfcRotl(d3, 8)
        c2 == Add32(c1, d4)  b3 == Xor32(b2, c2)   b4 == RfcRotl(b3, 7)
    IN  <<a2, b4, c2, d4>>

RfcPut(state, q, r) ==
    [state EXCEPT ![q[1] + 1] = r[1], ![q[2] + 1] = r[2], ![q[3] + 1] = r[3], ![q[4] + 1] = r[4]]

\* 2.2: QUARTERROUND(x, y, z, w) on the state
RfcQuarterRound(state, q) ==
    RfcPut(state, q, RfcQuarter(state[q[1] + 1], state[q[2] + 1],
                                state[q[3] + 1], state[q[4] + 1]))

\* 2.3: inner_block
RfcInnerRounds ==
    << <<0, 4, 8, 12>>, <<1, 5, 9, 13>>, <<2, 6, 10, 14>>, <<3, 7, 11, 15>>,
       <<0, 5, 10, 15>>, <<1, 6, 11, 12>>, <<2, 7, 8, 13>>, <<3, 4, 9, 14>> >>

RfcInnerBlock(state) ==
    ForLoop(LAMBDA i, s : RfcQuarterRound(s, RfcInnerRounds[i + 1]), 0, 8, state)

\* four bytes read as a little-endian integer
RfcWord(bytes, i) ==
    W(bytes[4 * i + 4] * 256 + bytes[4 * i + 3], bytes[4 * i + 2] * 256 + bytes[4 * i + 1])

\* 2.3: the state of a block
RfcState(key, counter, nonce) ==
    << W(\H6170, \H7865), W(\H3320, \H646e), W(\H7962, \H2d32), W(\H6b20, \H6574),
       RfcWord(key, 0), RfcWord(key, 1), RfcWord(key, 2), RfcWord(key, 3),
       RfcWord(key, 4), RfcWord(key, 5), RfcWord(key, 6), RfcWord(key, 7),
       counter, RfcWord(nonce, 0), RfcWord(nonce, 1), RfcWord(nonce, 2) >>

\* byte k (0 the lowest) of a word
RfcByte(x, k) ==
    IF k = 0 THEN x[2] % 256
    ELSE IF k = 1 THEN x[2] \div 256
    ELSE IF k = 2 THEN x[1] % 256
    ELSE x[1] \div 256

\* 2.3: state += initial_state; return serialize(state)
RfcSerialize(working, state) ==
    [j \in 1..64 |->
        RfcByte(Add32(working[((j - 1) \div 4) + 1], state[((j - 1) \div 4) + 1]),
                (j - 1) % 4)]

RfcBlockOf(state) ==
    RfcSerialize(ForLoop(LAMBDA i, s : RfcInnerBlock(s), 0, 10, state), state)

RfcBlock(key, counter, nonce) == RfcBlockOf(RfcState(key, counter, nonce))

\* 2.4: the key stream of n blocks from counter on
RECURSIVE RfcKeyStream(_, _, _, _)
RfcKeyStream(key, counter, nonce, n) ==
    IF n = 0 THEN <<>>
    ELSE RfcKeyStream(key, counter, nonce, n - 1)
             \o RfcBlock(key, Add32(counter, U32(n - 1)), nonce)

RfcXor(plaintext, key_stream) ==
    [i \in 1..Len(plaintext) |-> Xor8(plaintext[i], key_stream[i])]

\* 2.4: chacha20_encrypt(key, counter, nonce, plaintext)
RfcEncrypt(key, counter, nonce, plaintext) ==
    RfcXor(plaintext, RfcKeyStream(key, counter, nonce, (Len(plaintext) + 63) \div 64))

\* the bytes of a sequence of words, each word's most significant byte first
RfcBytesOf(words) ==
    [j \in 1..(4 * Len(words)) |-> RfcByte(words[((j - 1) \div 4) + 1], 3 - ((j - 1) % 4))]

\* bytes written as lower-case hex
RfcHex(bytes) ==
    [k \in 1..(2 * Len(bytes)) |->
        HexChars[(IF k % 2 = 1 THEN bytes[(k + 1) \div 2] \div 16
                  ELSE bytes[(k + 1) \div 2] % 16) + 1]]

\* ------------------------------------------------------------------------
\* test.cpp: run_test_case, statement by statement (specification SpecTest)
\* ------------------------------------------------------------------------

\* further arguments for run_test_case: keys, counters, a nonce and
\* messages with bytes above 0x7f, the expected result being the RFC's
MoreKeys == { [i \in 1..32 |-> i - 1], [i \in 1..32 |-> (i * 29 + 200) % 256] }
MoreCounters ==
    { [text |-> << "0" >>, value |-> U32(0)],
      [text |-> << "4", "2", "9", "4", "9", "6", "7", "2", "9", "5" >>, value |-> CounterMax] }
MoreNonce == [i \in 1..12 |-> (i * 83) % 256]
MoreMessages == { Msg(0), Msg(65) }

MoreCases ==
    { TestCase(RfcHex(k), c.text, RfcHex(MoreNonce), RfcHex(m),
               RfcHex(RfcEncrypt(k, c.value, MoreNonce, m))) :
          k \in MoreKeys, c \in MoreCounters, m \in MoreMessages }

TestCases == MainCases \cup MoreCases

\* the parameters and the locals of run_test_case at its entry
TestCall(c) ==
    [pc |-> "called", key |-> c.key, block_count |-> c.block_count, nonce |-> c.nonce,
     message |-> c.message, expected_result |-> c.expected_result,
     key_arr |-> <<>>, nonce_arr |-> <<>>, block_v |-> U32(0), msg |-> <<>>,
     msg_vec |-> <<>>, encrypted |-> <<>>, result_hex |-> <<>>, passed |-> FALSE, i |-> 0]

InitTest ==
    /\ sc = [i \in Inst |-> NoEngine]
    /\ life = [i \in Inst |-> "absent"]
    /\ args = [i \in Inst |-> NoArgs]
    /\ calls = [i \in Inst |-> <<>>]
    /\ seen = [i \in Inst |-> <<>>]
    /\ vx = NoEngine
    /\ vxLife = "absent"
    /\ vxArgs = NoArgs
    /\ vxCalls = <<>>
    /\ tc \in { TestCall(c) : c \in TestCases }

\* std::copy_n(util::hex_str_to_vec(key).begin(), 8, key_arr.begin());
TcKeyArr ==
    /\ tc.pc = "called"
    /\ tc' = [tc EXCEPT !.key_arr = copy_n(hex_str_to_vec(tc.key), 8), !.pc = "key_arr"]
    /\ UNCHANGED <<scVars, vxVars>>

\* std::copy_n(util::hex_str_to_vec(nonce).begin(), 3, nonce_arr.begin());
TcNonceArr ==
    /\ tc.pc = "key_arr"
    /\ tc' = [tc EXCEPT !.nonce_arr = copy_n(hex_str_to_vec(tc.nonce), 3), !.pc = "nonce_arr"]
    /\ UNCHANGED <<scVars, vxVars>>

\* std::uint32_t block_v = util::str_to_block(block_count);
TcBlockV ==
    /\ tc.pc = "nonce_arr"
    /\ tc' = [tc EXCEPT !.block_v = str_to_block(tc.block_count), !.pc = "block_v"]
    /\ UNCHANGED <<scVars, vxVars>>

\* std::string msg = util::hex_str_to_str(message);
TcMsg ==
    /\ tc.pc = "block_v"
    /\ tc' = [tc EXCEPT !.msg = hex_str_to_str(tc.message), !.pc = "msg"]
    /\ UNCHANGED <<scVars, vxVars>>

\* std::vector<std::uint8_t> msg_vec = util::str_to_vec(msg);
TcMsgVec ==
    /\ tc.pc = "msg"
    /\ tc' = [tc EXCEPT !.msg_vec = str_to_vec(tc.msg), !.pc = "msg_vec"]
    /\ UNCHANGED <<scVars, vxVars>>

\* Chacha20 cipher(key_arr, block_v, nonce_arr);
TcCipher ==
    /\ tc.pc = "msg_vec"
    /\ ScConstruct(1, Triple(tc.key_arr, tc.block_v, tc.nonce_arr))
    /\ tc' = [tc EXCEPT !.pc = "cipher"]
    /\ UNCHANGED vxVars

\* std::vector<std::uint8_t> encrypted = cipher.encrypt(msg_vec);
TcEncrypted ==
    /\ tc.pc = "cipher"
    /\ ScEncrypt(1, tc.msg_vec)
    /\ tc' = [tc EXCEPT !.encrypted = calls'[1][Len(calls'[1])].output, !.pc = "encrypted"]
    /\ UNCHANGED vxVars

\* std::string result_hex = util::vec_to_hex(encrypted);
TcResultHex ==
    /\ tc.pc = "encrypted"
    /\ tc' = [tc EXCEPT !.result_hex = vec_to_hex(tc.encrypted), !.pc = "result_hex"]
    /\ UNCHANGED <<scVars, vxVars>>

\* bool passed = (result_hex == expected_result); and the report of it
TcPassed ==
    /\ tc.pc = "result_hex"
    /\ tc' = [tc EXCEPT !.passed = (tc.result_hex = tc.expected_result), !.pc = "passed"]
    /\ UNCHANGED <<scVars, vxVars>>

\* if (passed) benchmark_encryption(cipher, msg_vec, iterations): one
\* iteration of its loop, as long as the engine's calls stay within MaxCalls
TcBenchmark ==
    /\ tc.pc = "passed"
    /\ tc.passed
    /\ tc.i < ITERATIONS
    /\ ScEncrypt(1, tc.msg_vec)
    /\ tc' = [tc EXCEPT !.i = @ + 1]
    /\ UNCHANGED vxVars

\* return passed; cipher goes out of scope
TcReturn ==
    /\ tc.pc = "passed"
    /\ ~tc.passed \/ tc.i = ITERATIONS \/ Len(calls[1]) >= MaxCalls
    /\ ScDestruct(1)
    /\ tc' = [tc EXCEPT !.pc = "returned"]
    /\ UNCHANGED vxVars

NextTest ==
    \/ TcKeyArr
    \/ TcNonceArr
    \/ TcBlockV
    \/ TcMsg
    \/ TcMsgVec
    \/ TcCipher
    \/ TcEncrypted
    \/ TcResultHex
    \/ TcPassed
    \/ TcBenchmark
    \/ TcReturn

SpecTest == InitTest /\ [][NextTest]_vars

\* C1: one encrypt call on a freshly constructed scalar engine returns the
\* RFC 8439 ChaCha20 encryption of the message under the key (each word's
\* most significant byte first), the counter and the nonce; and every
\* run_test_case call, the four of main among them, finds the result equal
\* to the expected hex string character by character.
C1_RfcEncryption ==
    /\ tc.pc \in {"encrypted", "result_hex", "passed", "returned"} =>
           /\ calls[1][1].message = tc.msg_vec
           /\ tc.encrypted = calls[1][1].output
           /\ tc.encrypted = RfcEncrypt(RfcBytesOf(args[1].key), args[1].block_count,
                                        RfcBytesOf(args[1].nonce), tc.msg_vec)
    /\ tc.pc \in {"passed", "returned"} =>
           /\ tc.passed
           /\ tc.result_hex = tc.expected_result

\* the third test case of main, 375 bytes from counter 1, has passed and
\* returned
C1_Witness ==
    /\ tc.pc = "returned"
    /\ tc.key = Case3Key /\ tc.block_count = Case3BlockCount /\ tc.nonce = Case3Nonce
    /\ tc.message = Case3Message /\ tc.expected_result = Case3Expected
    /\ Len(tc.encrypted) = 375
    /\ tc.result_hex = Case3Expected
    /\ tc.passed

\* ------------------------------------------------------------------------
\* run_test_case given keys and nonces of other lengths (specification
\* SpecLen): hex strings of 8 or 9 key words and of 3 or 4 nonce words
\* ------------------------------------------------------------------------

LenKeys == { [i \in 1..32 |-> i - 1], [i \in 1..36 |-> i - 1] }
LenNonces == { [i \in 1..12 |-> (i * 83) % 256], [i \in 1..16 |-> (i * 83) % 256] }
LenMessages == { Msg(0), Msg(1), Msg(65) }

LenCases ==
    { TestCase(RfcHex(k), << "1" >>, RfcHex(n), RfcHex(m),
               RfcHex(RfcEncrypt(k, U32(1), n, m))) :
          k \in LenKeys, n \in LenNonces, m \in LenMessages }

InitLen ==
    /\ sc = [i \in Inst |-> NoEngine]
    /\ life = [i \in Inst |-> "absent"]
    /\ args = [i \in Inst |-> NoArgs]
    /\ calls = [i \in Inst |-> <<>>]
    /\ seen = [i \in Inst |-> <<>>]
    /\ vx = NoEngine
    /\ vxLife = "absent"
    /\ vxArgs = NoArgs
    /\ vxCalls = <<>>
    /\ tc \in { TestCall(c) : c \in LenCases }

SpecLen == InitLen /\ [][NextTest]_vars

\* C11: when the key given is not exactly 8 words or the nonce not exactly 3
\* words, construction fails and no engine is built: no internal state is
\* ever initialised; with 8 key words and 3 nonce words the engine is built.
C11_InvalidLengthRefused ==
    /\ (Len(tc.key) # 8 * KEY_WORDS \/ Len(tc.nonce) # 8 * NONCE_WORDS) =>
           /\ life[1] = "absent"
           /\ sc[1] = NoEngine
    /\ (Len(tc.key) = 8 * KEY_WORDS /\ Len(tc.nonce) = 8 * NONCE_WORDS
        /\ tc.pc \in {"cipher", "encrypted", "result_hex", "passed"}) =>
           life[1] = "live"

\* ------------------------------------------------------------------------
\* Frames and the block function (specification Spec)
\* ------------------------------------------------------------------------

\* a word with its four bytes in the opposite order
ByteSwapped(x) ==
    W((x[2] % 256) * 256 + (x[2] \div 256), (x[1] % 256) * 256 + (x[1] \div 256))

\* every word of the matrix m but word 12 is what construction from the
\* arguments a put there
MatrixOf(m, a) ==
    /\ Len(m) = 16
    /\ m[1] = W(\H6170, \H7865) /\ m[2] = W(\H3320, \H646e)
    /\ m[3] = W(\H7962, \H2d32) /\ m[4] = W(\H6b20, \H6574)
    /\ \A w \in 0..7 : m[4 + w + 1] = ByteSwapped(a.key[w + 1])
    /\ \A w \in 0..2 : m[13 + w + 1] = ByteSwapped(a.nonce[w + 1])

\* C12: after any sequence of encrypt calls on an instance, words 0..3 of
\* its matrix are the four constants, words 4..11 the byte-swapped key
\* words, words 13..15 the byte-swapped nonce words, and the key and nonce
\* fields hold what the constructor was given: only word 12 has changed.
C12_EncryptFrame ==
    \A i \in Inst :
        life[i] = "live" =>
            /\ MatrixOf(sc[i].internal_state, args[i])
            /\ sc[i].key = args[i].key
            /\ sc[i].nonce = args[i].nonce
            /\ sc[i].block_count = Sub32(args[i].block_count, U32(1))

\* an engine with the RFC's key and nonce has generated three blocks in two
\* calls, and word 12 is no longer what the constructor stored
C12_Witness ==
    /\ life[1] = "live"
    /\ args[1].key = KeyRfc /\ args[1].nonce = NonceRfc
    /\ Len(calls[1]) = 2 /\ Len(seen[1]) = 3
    /\ sc[1].internal_state[13] # sc[1].block_count

\* the 16 words (P(S)[i] + S[i]) mod 2^32, P being 10 times the quarter
\* rounds on the four columns and then on the four diagonals
FeedForward(permuted, S) ==
    ForLoop(LAMBDA i, s : [s EXCEPT ![i + 1] = Add32(@, S[i + 1])], 0, 16, permuted)

BlockWords(S) == FeedForward(ForLoop(LAMBDA i, s : RfcInnerBlock(s), 0, 10, S), S)

\* b is what chacha20_block gives on the matrix m
BlockIs(m, b) ==
    /\ b.internal_state = [m EXCEPT ![13] = Add32(m[13], U32(1))]
    /\ b.stream = BlockWords(b.internal_state)

\* C13: on every matrix an engine reaches, chacha20_block advances word 12
\* and returns, for the matrix S carrying that counter, the words
\* (P(S)[i] + S[i]) mod 2^32: ten double rounds, columns before diagonals,
\* run on a copy, the pre-round matrix S being what is added.
C13_BlockFunction ==
    \A i \in Inst :
        life[i] = "live" => BlockIs(sc[i].internal_state, chacha20_block(sc[i].internal_state))

\* the engine with the RFC's key and nonce has run its block function three
\* times and its matrix is ready for a fourth
C13_Witness ==
    /\ life[1] = "live"
    /\ args[1].key = KeyRfc /\ args[1].nonce = NonceRfc /\ args[1].block_count = U32(1)
    /\ seen[1] = << U32(1), U32(2), U32(3) >>
    /\ sc[1].internal_state[13] = U32(3)

\* ------------------------------------------------------------------------
\* The order of the keystream bytes (specification SpecAvx)
\* ------------------------------------------------------------------------

\* the matrix of the block with the given counter for the constructor
\* arguments a
MatrixAt(a, counter) ==
    << W(\H6170, \H7865), W(\H3320, \H646e), W(\H7962, \H2d32), W(\H6b20, \H6574),
       ByteSwapped(a.key[1]), ByteSwapped(a.key[2]), ByteSwapped(a.key[3]),
       ByteSwapped(a.key[4]), ByteSwapped(a.key[5]), ByteSwapped(a.key[6]),
       ByteSwapped(a.key[7]), ByteSwapped(a.key[8]),
       counter,
       ByteSwapped(a.nonce[1]), ByteSwapped(a.nonce[2]), ByteSwapped(a.nonce[3]) >>

\* the n keystream blocks from counter on, each as its 16 words
RECURSIVE KeyBlocks(_, _, _)
KeyBlocks(a, counter, n) ==
    IF n = 0 THEN <<>>
    ELSE Append(KeyBlocks(a, counter, n - 1),
                BlockWords(MatrixAt(a, Add32(counter, U32(n - 1)))))

\* output byte p is message byte p XOR byte (p mod 4), least significant
\* first, of word ((p mod 64) div 4) of block (p div 64)
InByteOrder(call, blocks) ==
    /\ Len(call.output) = Len(call.message)
    /\ \A p \in 0..(Len(call.message) - 1) :
           call.output[p + 1] =
               Xor8(call.message[p + 1],
                    RfcByte(blocks[(p \div 64) + 1][((p % 64) \div 4) + 1], p % 4))

\* the counters the AVX engine's calls before call q took: two per pass of
\* 128 bytes
RECURSIVE AvxBlocksBefore(_, _)
AvxBlocksBefore(cs, q) ==
    IF q <= 1 THEN 0
    ELSE AvxBlocksBefore(cs, q - 1) + 2 * ((Len(cs[q - 1].message) + 127) \div 128)

\* C14: within an encrypt call, the output byte at offset p is the message
\* byte XOR byte (p mod 4), least significant first, of word
\* ((p mod 64) div 4) of the call's keystream block (p div 64); in the AVX
\* loop bytes 0..63 of a pass come from the block with counter N and bytes
\* 64..127 from the block with counter N + 1.  Stated of the latest call of
\* each engine, which every call once was.
C14_ByteOrder ==
    /\ Len(calls[1]) >= 1 =>
           InByteOrder(calls[1][Len(calls[1])],
                       KeyBlocks(args[1],
                                 Add32(args[1].block_count,
                                       U32(BlocksBefore(calls[1], Len(calls[1])))),
                                 BlocksOf(Len(calls[1][Len(calls[1])].message))))
    /\ Len(vxCalls) >= 1 =>
           InByteOrder(vxCalls[Len(vxCalls)],
                       KeyBlocks(vxArgs,
                                 Add32(vxArgs.block_count,
                                       U32(AvxBlocksBefore(vxCalls, Len(vxCalls)))),
                                 BlocksOf(Len(vxCalls[Len(vxCalls)].message))))

\* both engines, after a call of 65 bytes, took 128 + 1 bytes: a whole pass
\* of two blocks and the first byte of the next
C14_Witness ==
    /\ Len(calls[1]) = 2 /\ Len(vxCalls) = 2
    /\ Len(calls[1][1].message) = 65 /\ Len(vxCalls[1].message) = 65
    /\ Len(calls[1][2].output) = 129 /\ Len(vxCalls[2].output) = 129
    /\ vxArgs.key = KeyRfc

\* ------------------------------------------------------------------------
\* The partial final chunk (specification Spec)
\* ------------------------------------------------------------------------

\* C15: a call whose message is not a multiple of 64 bytes long uses up the
\* whole of its last block: every call permutes ceil(n / 64) blocks, each
\* block's counter is the one before plus one, so none is used twice, and
\* the call after a partial chunk takes its bytes from byte 0 on of the
\* block with the next counter.
C15_PartialChunk ==
    \A i \in Inst :
        /\ Len(seen[i]) = BlocksBefore(calls[i], Len(calls[i]) + 1)
        /\ \A n \in 1..(Len(seen[i]) - 1) : seen[i][n + 1] = Add32(seen[i][n], U32(1))
        /\ \A m, n \in 1..Len(seen[i]) : m # n => seen[i][m] # seen[i][n]
        /\ \A q \in 2..Len(calls[i]) :
               (Len(calls[i][q - 1].message) % 64 # 0 /\ calls[i][q].message # <<>>) =>
                   InByteOrder(calls[i][q],
                               KeyBlocks(args[i],
                                         Add32(seen[i][BlocksBefore(calls[i], q)], U32(1)),
                                         BlocksOf(Len(calls[i][q].message))))

\* a call of 64 + 1 bytes left 63 bytes of its second block unused, and a
\* second call of 65 bytes followed: four blocks in all
C15_Witness ==
    /\ Len(calls[1]) = 2
    /\ Len(calls[1][1].message) = 65
    /\ Len(calls[1][2].message) = 65
    /\ Len(seen[1]) = 4
    /\ args[1].block_count = CounterMax

\* ------------------------------------------------------------------------
\* The AVX double round against the scalar one (specification SpecAvx)
\* ------------------------------------------------------------------------

\* the block packed in one half of the rows as the scalar engine's 16 words:
\* half 1 is lanes 7..4 (the block with counter N), half 0 lanes 3..0 (the
\* block with counter N + 1); word w of a row is in lane 3 - w of the half
Unpack(rows, half) ==
    [w \in 1..16 |-> rows[((w - 1) \div 4) + 1][(4 * half + 3 - ((w - 1) % 4)) + 1]]

\* rows whose every lane holds its own position <<row, lane>>
LaneLabels == [r \in 1..4 |-> [l \in 1..8 |-> <<r - 1, l - 1>>]]

\* the diagonals of the scalar matrix
Diagonals == { {0, 5, 10, 15}, {1, 6, 11, 12}, {2, 7, 8, 13}, {3, 4, 9, 14} }

\* the scalar index of the word a label stands for
WordOf(label) == 4 * label[1] + 3 - (label[2] % 4)

\* shuffled rows whose lane l holds, in every row, a word of the same half
\* as l, and in its four rows the four words of one diagonal
OnDiagonals(shuffled) ==
    \A l \in 1..8 :
        /\ \A r \in 1..4 : shuffled[r][l][1] = r - 1
        /\ \A r \in 1..4 : shuffled[r][l][2] \div 4 = (l - 1) \div 4
        /\ { WordOf(shuffled[r][l]) : r \in 1..4 } \in Diagonals

\* C16: on the rows an AVX engine holds, double_round gives in each half
\* what the scalar double_round gives on that half's block; the three
\* shuffles before the diagonal phase bring the words of each diagonal of
\* each block into one lane without leaving the block's half, and the three
\* after it bring every word back to its position.
C16_AvxDoubleRound ==
    vxLife = "live" =>
        /\ \A half \in {0, 1} :
               /\ Unpack(avx_double_round(vx.internal_state), half)
                      = double_round(Unpack(vx.internal_state, half))
               /\ Unpack(avx_double_round(avx_double_round(vx.internal_state)), half)
                      = double_round(double_round(Unpack(vx.internal_state, half)))
        /\ OnDiagonals(AvxToDiagonals(LaneLabels))
        /\ AvxToColumns(AvxToDiagonals(LaneLabels)) = LaneLabels
        /\ AvxToColumns(AvxToDiagonals(vx.internal_state)) = vx.internal_state

\* the AVX engine with the RFC's key has run two passes of ten double rounds
\* and holds the rows for the next
C16_Witness ==
    /\ vxLife = "live"
    /\ vxArgs.key = KeyRfc
    /\ Len(vxCalls) = 1
    /\ Len(vxCalls[1].message) = 129
    /\ Unpack(vx.internal_state, 1)[13] = Add32(vxArgs.block_count, U32(2))

\* ------------------------------------------------------------------------
\* The frame of the destructor (specification SpecAvx)
\* ------------------------------------------------------------------------

====
